---- MODULE Spec2Model ----
(***************************************************************************)
(* Model of the self-training BERT fine-tuning runner (src/run_ld.py) and  *)
(* of the Fast Gradient Method perturbation helper (src/at.py).            *)
(*                                                                         *)
(* Four specifications share this module:                                  *)
(*   SpecFGM   the FGM object driven through its public methods            *)
(*   SpecSort  the pure list function sort() applied to bounded inputs     *)
(*   SpecMain  main(): configuration, the self-training rounds, the final  *)
(*             reload and test evaluation                                  *)
(*   SpecTrain the steps of train() over the rounds: clean and adversarial *)
(*             passes, optimizer steps and the learning-rate schedule      *)
(***************************************************************************)
EXTENDS Integers, Sequences, FiniteSets, TLC

VARIABLES
    \* ---- at.py : FGM and the model it wraps
    requires_grad,   \* param index -> BOOLEAN            (param.requires_grad)
    data,            \* param index -> tensor             (param.data)
    grad,            \* param index -> tensor, NoGrad or NaNGrad (param.grad)
    backup,          \* function: parameter name -> tensor (self.backup)
    lastCall,        \* the most recent call made on the model / FGM object
    prevCall,        \* the call before it
    dataPre,         \* data as it was when lastCall started
    dataPre2,        \* data as it was when prevCall started
    backupPre,       \* names in backup when lastCall started
    calls,           \* number of calls made so far
    \* ---- run_ld.py : one call of sort()
    train_examples,  \* argument: the labeled pool
    eval_examples,   \* argument: the unlabeled pool
    label_list,      \* argument: the label vocabulary
    id2conf,         \* argument: (predicted label, confidence) per example
    num_k,           \* argument: promotions per class
    sorted_out,      \* what the call returned (and whether it returned)
    sort_pc,         \* "call" before the call, "done" after it
    \* ---- run_ld.py : main()
    args,            \* the parsed command line (argparse Namespace)
    data_dir,        \* number of lines of the train and the unlabeled file
    pc,              \* position in main()
    err,             \* the exception that ended the run, "" if none
    device_chosen,   \* lines 737-743 have run
    process_group,   \* torch.distributed.init_process_group has run
    output_dir_made, \* os.makedirs(args.output_dir) has run
    loaded,          \* what has been loaded: tokenizer, datasets, models
    self_train,      \* args.self_train
    ud_train_fea,    \* the labeled pool
    ud_unlabel_fea,  \* the unlabeled pool
    best_acc,        \* the best-accuracy watermark
    time,            \* loop variable of the rounds, 0-based
    epoch,           \* epochs of the current train() call already run
    model,           \* where the parameters of `model` come from
    output_model_file, \* the checkpoint file: absent, or what was saved
    firstTrained,    \* origin of the model the first train() call received
    bestSeen,        \* highest validation accuracy of the run, and when
    sort_calls,      \* number of sort() calls made by the run
    \* ---- run_ld.py : train() step by step, across the rounds of main()
    train_args,      \* the command line of the run
    train_size,      \* len(ud_train_fea), the labeled pool train() is given
    batch_size,      \* args.train_batch_size after line 753
    num_train_steps, \* num_train_steps of lines 790-791
    t_total,         \* args.t_total
    global_step,     \* args.global_step
    round_no,        \* `time`, the loop variable of line 830
    epoch_no,        \* epochs of this train() call already run
    step,            \* `step`, the batch index inside the epoch
    train_pc,        \* position in the step
    train_err,       \* the exception that ended the run, "" if none
    ops,             \* what the current step has done so far, in order
    dataClean,       \* data as it was when the current step began
    lr_this_step     \* x and warmup_linear(x) of the last optimizer step

fgmVars == <<requires_grad, data, grad, backup, lastCall, prevCall,
             dataPre, dataPre2, backupPre, calls>>

sortVars == <<train_examples, eval_examples, label_list, id2conf, num_k,
              sorted_out, sort_pc>>

mainVars == <<args, data_dir, pc, err, device_chosen, process_group, output_dir_made,
              loaded, self_train, ud_train_fea, ud_unlabel_fea, best_acc,
              time, epoch, model, output_model_file, firstTrained, bestSeen,
              sort_calls>>

trainVars == <<train_args, train_size, batch_size, num_train_steps, t_total,
               global_step, round_no, epoch_no, step, train_pc, train_err,
               ops, dataClean, lr_this_step>>

vars == <<fgmVars, sortVars, mainVars, trainVars>>

----------------------------------------------------------------------------
(***************************************************************************)
(* at.py                                                                   *)
(***************************************************************************)

\* Bound of the FGM harness: calls made on the model and the FGM object.
MaxCalls == 4

\* Tensors are 2-component vectors of integers in units of 1/Scale.
Scale == 5

\* Names as model.named_parameters() yields them, in iteration order.  A
\* name is the sequence of its dot-separated components.
ParamNames ==
    << <<"bert", "embeddings", "word_embeddings", "weight">>,
       <<"bert", "embeddings", "position_embeddings", "weight">>,
       <<"classifier", "weight">> >>

NParams == Len(ParamNames)
Params  == 1..NParams

\* The default emb_name of attack() and restore().
DefaultEmbName == <<"bert", "embeddings", "word_embeddings">>

\* Name filters a caller may pass as emb_name.
EmbNames == {DefaultEmbName, <<"embeddings">>, <<"pooler">>}

\* Values a caller may pass as epsilon (1 is the default).
Epsilons == {1, 2}

\* param.grad: None before any backward pass reached the parameter, a tensor
\* holding NaN, or a tensor of numbers.
NoGrad  == [kind |-> "None", v |-> <<0, 0>>]
NaNGrad == [kind |-> "nan", v |-> <<0, 0>>]
Tensor(a, b) == [kind |-> "tensor", v |-> <<a, b>>]

\* The norm of a tensor holding NaN; every other norm is >= 0.
NaN == -1

\* Gradients a backward pass may leave on a parameter.
GradSet == {NoGrad, Tensor(0, 0), Tensor(3, -4), NaNGrad}

\* Whether each parameter is trainable; fixed when the model is built.
RequiresGradChoices == {<<TRUE, TRUE, TRUE>>, <<TRUE, FALSE, TRUE>>}

InitData == << <<10, 20>>, <<-5, 0>>, <<7, 7>> >>

\* `emb_name in name`: emb_name occurs as a contiguous part of name.
NameMatches(emb_name, name) ==
    \E i \in 0..(Len(name) - Len(emb_name)) :
        SubSeq(name, i + 1, i + Len(emb_name)) = emb_name

\* The guard of both loops: param.requires_grad and emb_name in name.
Targeted(i, emb_name) ==
    requires_grad[i] /\ NameMatches(emb_name, ParamNames[i])

ISqrt(n) == CHOOSE r \in 0..n : r * r <= n /\ (r + 1) * (r + 1) > n

\* torch.norm(param.grad): the L2 norm.
Norm(g) ==
    IF g.kind = "nan" THEN NaN ELSE ISqrt(g.v[1] * g.v[1] + g.v[2] * g.v[2])

\* norm != 0 and not torch.isnan(norm)
Perturbs(norm) == norm # 0 /\ norm # NaN

\* r_at = epsilon * param.grad / norm
RAt(epsilon, g, norm) ==
    [k \in 1..2 |-> (epsilon * Scale * g.v[k]) \div norm]

\* param.data.add_(r_at)
Add(d, r) == [k \in 1..2 |-> d[k] + r[k]]

\* self.backup[name] = param.data.clone(): the snapshot holds the value the
\* parameter had before the in-place add (before) and not the value it has
\* afterwards (after).
CloneAlias(before, after) == after
Clone(before, after) == before

\* Whether attack() writes a backup entry for a targeted parameter whose
\* norm is `norm`: the snapshot is taken before the norm is looked at.
SnapshotTakenOnlyIfPerturbed(norm) == Perturbs(norm)
SnapshotTaken(norm) == TRUE

\* f with key k bound to v (a dict assignment).
Put(f, k, v) == [x \in (DOMAIN f) \cup {k} |-> IF x = k THEN v ELSE f[x]]

EmptyBackup == [x \in {} |-> 0]

\* One iteration of the loop of attack() on parameter i.  st.ok turns FALSE
\* when torch.norm is handed a missing gradient and raises; the entry
\* written just before the raise stays in the backup.
AttackParam(st, i, epsilon, emb_name) ==
    IF ~st.ok \/ ~Targeted(i, emb_name) THEN st
    ELSE IF grad[i].kind = "None"
         THEN [st EXCEPT !.backup = Put(st.backup, ParamNames[i], st.data[i]),
                         !.ok = FALSE]
         ELSE LET norm   == Norm(grad[i])
                  before == st.data[i]
                  after  == IF Perturbs(norm)
                            THEN Add(before, RAt(epsilon, grad[i], norm))
                            ELSE before
              IN [st EXCEPT
                    !.data[i] = after,
                    !.backup  = IF SnapshotTaken(norm)
                                THEN Put(st.backup, ParamNames[i],
                                         Clone(before, after))
                                ELSE st.backup]

RECURSIVE AttackLoop(_, _, _, _)
AttackLoop(st, i, epsilon, emb_name) ==
    IF i > NParams THEN st
    ELSE AttackLoop(AttackParam(st, i, epsilon, emb_name), i + 1,
                    epsilon, emb_name)

\* restore() that passes over a parameter without a snapshot in silence.
RestoreParamSkipsMissing(st, i, emb_name) ==
    IF ~st.ok \/ ~Targeted(i, emb_name) THEN st
    ELSE IF ParamNames[i] \notin DOMAIN st.backup
         THEN st
         ELSE [st EXCEPT !.data[i] = st.backup[ParamNames[i]]]

\* One iteration of the loop of restore() on parameter i.  st.ok turns
\* FALSE when `assert name in self.backup` fails.
RestoreParam(st, i, emb_name) ==
    IF ~st.ok \/ ~Targeted(i, emb_name) THEN st
    ELSE IF ParamNames[i] \notin DOMAIN st.backup
         THEN [st EXCEPT !.ok = FALSE]
         ELSE [st EXCEPT !.data[i] = st.backup[ParamNames[i]]]

RECURSIVE RestoreLoop(_, _, _)
RestoreLoop(st, i, emb_name) ==
    IF i > NParams THEN st
    ELSE RestoreLoop(RestoreParam(st, i, emb_name), i + 1, emb_name)

\* self.backup = {} is reached only when no assertion failed.
ClearAfterRestoreNever(ok, b) == b
ClearAfterRestore(ok, b) == IF ok THEN EmptyBackup ELSE b

NoCall == [op |-> "none", emb_name |-> <<>>, ok |-> TRUE]

Record(op, emb_name, ok) ==
    /\ prevCall'  = lastCall
    /\ lastCall'  = [op |-> op, emb_name |-> emb_name, ok |-> ok]
    /\ dataPre2'  = dataPre
    /\ dataPre'   = data
    /\ backupPre' = DOMAIN backup
    /\ calls'     = calls + 1

InitFGMObject ==
    /\ requires_grad \in RequiresGradChoices
    /\ data = InitData
    /\ grad = [i \in Params |-> NoGrad]
    /\ backup = EmptyBackup
    /\ lastCall = NoCall
    /\ prevCall = NoCall
    /\ dataPre = InitData
    /\ dataPre2 = InitData
    /\ backupPre = {}
    /\ calls = 0

\* loss.backward(): every trainable parameter receives some gradient (or
\* none, when the loss does not depend on it).
Backward ==
    /\ calls < MaxCalls
    /\ \E g \in [Params -> GradSet] :
          /\ \A i \in Params : ~requires_grad[i] => g[i] = NoGrad
          /\ grad' = g
    /\ Record("backward", <<>>, TRUE)
    /\ UNCHANGED <<requires_grad, data, backup>>
    /\ UNCHANGED <<sortVars, mainVars, trainVars>>

\* FGM.attack(epsilon, emb_name)
Attack ==
    /\ calls < MaxCalls
    /\ \E epsilon \in Epsilons, emb_name \in EmbNames :
          LET st == AttackLoop([data |-> data, backup |-> backup, ok |-> TRUE],
                               1, epsilon, emb_name)
          IN /\ data' = st.data
             /\ backup' = st.backup
             /\ Record("attack", emb_name, st.ok)
    /\ UNCHANGED <<requires_grad, grad>>
    /\ UNCHANGED <<sortVars, mainVars, trainVars>>

\* FGM.restore(emb_name)
Restore ==
    /\ calls < MaxCalls
    /\ \E emb_name \in EmbNames :
          LET st == RestoreLoop([data |-> data, backup |-> backup, ok |-> TRUE],
                                1, emb_name)
          IN /\ data' = st.data
             /\ backup' = ClearAfterRestore(st.ok, st.backup)
             /\ Record("restore", emb_name, st.ok)
    /\ UNCHANGED <<requires_grad, grad>>
    /\ UNCHANGED <<sortVars, mainVars, trainVars>>

NextFGM == Backward \/ Attack \/ Restore


----------------------------------------------------------------------------
(***************************************************************************)
(* run_ld.py : sort()                                                      *)
(***************************************************************************)

\* Bounds of the sort harness.
\* labeled pool sizes 0..MaxTrain
MaxTrain == 1
\* unlabeled pool sizes 0..MaxUnlabel
MaxUnlabel == 3
\* vocabulary sizes 1..MaxLabels, predictions 0..MaxLabels-1
MaxLabels == 3
\* confidences 1..MaxConf
MaxConf == 2
\* num_k in -1..MaxK
MaxK == 1

Min(a, b) == IF a < b THEN a ELSE b
Max(a, b) == IF a > b THEN a ELSE b

\* An InputFeatures object: id stands for the object's identity, label_id
\* is its one field that sort() writes.
Feature(id, label_id) == [id |-> id, label_id |-> label_id]

\* Identities of the objects of the two pools as first loaded.
TrainId(n)   == n
UnlabelId(n) == 100 + n

\* The features of a file of n lines (convert_examples_to_features); the
\* label of a line is the one its file gives it.
UnlabelFeatures(n) == [j \in 1..n |-> Feature(UnlabelId(j), j % 2)]
TrainFeatures(n)   == [j \in 1..n |-> Feature(TrainId(j), 0)]

\* Lines 391-394: label2id[label] maps pool index -> confidence; a dict
\* keeps insertion order, so the items of label2id[label] are the records
\* predicting label, by ascending pool index (0-based).
RECURSIVE ItemsOf(_, _, _)
ItemsOf(conf, label, i) ==
    IF i >= Len(conf) THEN <<>>
    ELSE IF conf[i + 1][1] = label
         THEN <<[idx |-> i, conf |-> conf[i + 1][2]]>> \o ItemsOf(conf, label, i + 1)
         ELSE ItemsOf(conf, label, i + 1)

Label2Id(conf) ==
    [label \in {conf[j][1] : j \in 1..Len(conf)} |-> ItemsOf(conf, label, 0)]

\* Where sorted(..., reverse=True, key=conf) puts item x among the already
\* sorted items s: behind every item whose confidence is >= its own, so
\* that equal confidences keep their original order.
InsertTiesReversed(s, x) ==
    LET n == Cardinality({j \in 1..Len(s) : s[j].conf > x.conf})
    IN SubSeq(s, 1, n) \o <<x>> \o SubSeq(s, n + 1, Len(s))

InsertAsc(s, x) ==
    LET n == Cardinality({j \in 1..Len(s) : s[j].conf <= x.conf})
    IN SubSeq(s, 1, n) \o <<x>> \o SubSeq(s, n + 1, Len(s))

InsertDesc(s, x) ==
    LET n == Cardinality({j \in 1..Len(s) : s[j].conf >= x.conf})
    IN SubSeq(s, 1, n) \o <<x>> \o SubSeq(s, n + 1, Len(s))

\* Line 402: sorted(i2cs.items(), reverse=True, key=lambda kv: kv[1])
RECURSIVE SortedReverse(_)
SortedReverse(items) ==
    IF items = <<>> THEN <<>>
    ELSE InsertDesc(SortedReverse(SubSeq(items, 1, Len(items) - 1)),
                    items[Len(items)])

\* Line 404: s[:k], a Python slice (a negative k drops the last -k items).
SliceFrom(s, k) ==
    IF k >= 0 THEN SubSeq(s, Min(k, Len(s)) + 1, Len(s))
    ELSE SubSeq(s, Max(0, Len(s) + k) + 1, Len(s))

SliceOneMore(s, k) ==
    IF k >= 0 THEN SubSeq(s, 1, Min(k + 1, Len(s)))
    ELSE SubSeq(s, 1, Max(0, Len(s) + k))

Slice(s, k) ==
    IF k >= 0 THEN SubSeq(s, 1, Min(k, Len(s)))
    ELSE SubSeq(s, 1, Max(0, Len(s) + k))

\* Lines 397-399: `if i not in label2id.keys(): continue`
NoClassNever(l2i, i) == FALSE
NoClass(l2i, i) == i \notin DOMAIN l2i

\* Line 407: ex.label_id = i
RelabelKeeps(ex, i) == ex
Relabel(ex, i) == [ex EXCEPT !.label_id = i]

\* Lines 404-408 for the selected items sel of class i.
RECURSIVE Promote(_, _, _, _)
Promote(st, sel, i, pool) ==
    IF sel = <<>> THEN st
    ELSE LET ex == pool[sel[1].idx + 1]
         IN Promote([st EXCEPT
                        !.id2train = Append(@, sel[1].idx),
                        !.train    = Append(@, Relabel(ex, i))],
                    Tail(sel), i, pool)

\* One iteration of the loop of lines 396-408.  st.ok turns FALSE when
\* label2id[i] raises KeyError.
SortClass(st, i, l2i, pool, k) ==
    IF ~st.ok THEN st
    ELSE IF NoClass(l2i, i) THEN st
    ELSE IF i \notin DOMAIN l2i THEN [st EXCEPT !.ok = FALSE]
    ELSE Promote(st, Slice(SortedReverse(l2i[i]), k), i, pool)

RECURSIVE SortClasses(_, _, _, _, _, _)
SortClasses(st, i, n, l2i, pool, k) ==
    IF i >= n THEN st
    ELSE SortClasses(SortClass(st, i, l2i, pool, k), i + 1, n, l2i, pool, k)

\* del pool[index]; every index handed in is a valid one.
RemoveAt(pool, index) ==
    IF index >= Len(pool) THEN pool
    ELSE SubSeq(pool, 1, index) \o SubSeq(pool, index + 2, Len(pool))

\* Line 410: sorted(id2train, reverse=True), on distinct integers.
Unsorted(ids) == ids

RECURSIVE SortedIndexReverse(_)
SortedIndexReverse(ids) ==
    IF ids = <<>> THEN <<>>
    ELSE LET m == CHOOSE x \in {ids[j] : j \in 1..Len(ids)} :
                      \A j \in 1..Len(ids) : ids[j] <= x
             rest == SelectSeq(ids, LAMBDA x : x # m)
         IN <<m>> \o SortedIndexReverse(rest)

\* Lines 410-411.
RECURSIVE DelAll(_, _)
DelAll(pool, ids) ==
    IF ids = <<>> THEN pool
    ELSE DelAll(RemoveAt(pool, ids[1]), Tail(ids))

\* sort(train_examples, eval_examples, label_list, id2conf, num_k).  The
\* result carries the two returned lists, the list id2train and whether
\* the call returned at all.
Sort(train, pool, labels, conf, k) ==
    LET st == SortClasses([train |-> train, id2train |-> <<>>, ok |-> TRUE],
                          0, Len(labels), Label2Id(conf), pool, k)
    IN [ud_train_examples   |-> st.train,
        ud_unlabel_examples |-> IF st.ok
                                THEN DelAll(pool, SortedIndexReverse(st.id2train))
                                ELSE pool,
        id2train            |-> st.id2train,
        ok                  |-> st.ok]

NoResult == [ud_train_examples |-> <<>>, ud_unlabel_examples |-> <<>>,
             id2train |-> <<>>, ok |-> TRUE]

\* The vocabularies sort() is handed: the first n of these names.
LabelNames == <<"CCAT", "ECAT", "MCAT", "GCAT", "L5", "L6">>

IdleSort ==
    /\ train_examples = <<>>
    /\ eval_examples = <<>>
    /\ label_list = <<>>
    /\ id2conf = <<>>
    /\ num_k = 0
    /\ sorted_out = NoResult
    /\ sort_pc = "idle"

InitSortArgs ==
    /\ \E t \in 0..MaxTrain : train_examples = TrainFeatures(t)
    /\ \E u \in 0..MaxUnlabel :
          /\ eval_examples = UnlabelFeatures(u)
          /\ id2conf \in [1..u -> (0..(MaxLabels - 1)) \X (1..MaxConf)]
    /\ \E n \in 1..MaxLabels : label_list = SubSeq(LabelNames, 1, n)
    /\ num_k \in -1..MaxK
    /\ sorted_out = NoResult
    /\ sort_pc = "call"

CallSort ==
    /\ sort_pc = "call"
    /\ sorted_out' = Sort(train_examples, eval_examples, label_list, id2conf, num_k)
    /\ sort_pc' = "done"
    /\ UNCHANGED <<train_examples, eval_examples, label_list, id2conf, num_k>>
    /\ UNCHANGED <<fgmVars, mainVars, trainVars>>

IdleFGM ==
    /\ requires_grad = <<TRUE, TRUE, TRUE>>
    /\ data = InitData
    /\ grad = [i \in Params |-> NoGrad]
    /\ backup = EmptyBackup
    /\ lastCall = NoCall
    /\ prevCall = NoCall
    /\ dataPre = InitData
    /\ dataPre2 = InitData
    /\ backupPre = {}
    /\ calls = 0

----------------------------------------------------------------------------
(***************************************************************************)
(* run_ld.py : main(), train(), eval()                                     *)
(***************************************************************************)

\* Bounds of the runs of main().
\* num_self_train in 0..MaxRounds
MaxRounds == 3
\* num_train_epochs in 1..MaxEpochs
MaxEpochs == 2
\* validation accuracies 0..MaxAcc (in units of 1/MaxAcc)
MaxAcc == 1
\* unlabeled examples loaded: 0..MaxPool
MaxPool == 2

\* processors (lines 726-730) and num_labels_task (lines 732-735).
Processors == {"mld", "cly"}
NumLabelsTask == [t \in Processors |-> IF t = "mld" THEN 4 ELSE 5]

\* MLDProcessor.get_labels()
MLDLabels == <<"CCAT", "ECAT", "MCAT", "GCAT">>

NoModel == [init |-> "none", round |-> 0, epoch |-> 0]
NoFile  == [exists |-> FALSE, round |-> 0, epoch |-> 0, acc |-> 0]
\* A pytorch_model.bin left in the output directory by an earlier run.
OldFile == [exists |-> TRUE, round |-> 0, epoch |-> 0, acc |-> 0]

NothingLoaded == {}

\* Command lines that exercise the checks at the head of main().
ConfigArgs ==
    [local_rank : {-1, 0}, no_cuda : {FALSE},
     gradient_accumulation_steps : {0, 1},
     do_train : BOOLEAN, do_eval : BOOLEAN,
     task_name : {"mld", "cly", "xnli"},
     resume : BOOLEAN,
     num_self_train : {1}, num_k : {1}, num_train_epochs : {1}]

\* Command lines of training runs that pass those checks.
RunArgs ==
    [local_rank : {-1}, no_cuda : {FALSE},
     gradient_accumulation_steps : {1},
     do_train : {TRUE}, do_eval : {TRUE},
     task_name : {"mld"},
     resume : {FALSE},
     num_self_train : 0..MaxRounds, num_k : 0..MaxK,
     num_train_epochs : 1..MaxEpochs]

InitMainState ==
    /\ pc = "device"
    /\ err = ""
    /\ device_chosen = FALSE
    /\ process_group = FALSE
    /\ output_dir_made = FALSE
    /\ loaded = NothingLoaded
    /\ self_train = FALSE
    /\ ud_train_fea = <<>>
    /\ ud_unlabel_fea = <<>>
    /\ best_acc = 0
    /\ time = 0
    /\ epoch = 0
    /\ model = NoModel
    /\ firstTrained = "none"
    /\ bestSeen = [acc |-> 0, round |-> 0, epoch |-> 0]
    /\ sort_calls = 0

\* The command line, the data files and the output directory a run finds.
InitMainArgs ==
    \/ /\ args \in ConfigArgs
       /\ data_dir = [train |-> 1, unlabel |-> 1]
       /\ output_model_file \in {NoFile, OldFile}
    \/ /\ args \in RunArgs
       /\ data_dir \in [train : {1}, unlabel : 0..MaxPool]
       /\ output_model_file = NoFile

IdleMain ==
    /\ args = CHOOSE a \in RunArgs : TRUE
    /\ data_dir = [train |-> 1, unlabel |-> 0]
    /\ InitMainState
    /\ output_model_file = NoFile

Raise(e) ==
    /\ pc' = "error"
    /\ err' = e

\* Lines 737-747: device selection; the distributed backend is initialised
\* when a local rank is given and CUDA is not disabled.
SelectDevice ==
    /\ pc = "device"
    /\ UNCHANGED <<fgmVars, sortVars, trainVars>>
    /\ device_chosen' = TRUE
    /\ process_group' = ~(args.local_rank = -1 \/ args.no_cuda)
    /\ pc' = "check_accumulation"
    /\ UNCHANGED <<args, data_dir, err, output_dir_made, loaded, self_train,
                   ud_train_fea, ud_unlabel_fea, best_acc, time, epoch, model,
                   output_model_file, firstTrained, bestSeen, sort_calls>>

\* Lines 749-759.
CheckAccumulation ==
    /\ pc = "check_accumulation"
    /\ UNCHANGED <<fgmVars, sortVars, trainVars>>
    /\ IF args.gradient_accumulation_steps < 1
       THEN Raise("ValueError: gradient_accumulation_steps")
       ELSE pc' = "check_mode" /\ err' = err
    /\ UNCHANGED <<args, data_dir, device_chosen, process_group,
                   output_dir_made, loaded, self_train,
                   ud_train_fea, ud_unlabel_fea, best_acc, time, epoch, model,
                   output_model_file, firstTrained, bestSeen, sort_calls>>

\* Lines 761-762.
CheckMode ==
    /\ pc = "check_mode"
    /\ UNCHANGED <<fgmVars, sortVars, trainVars>>
    /\ IF ~args.do_train /\ ~args.do_eval
       THEN Raise("ValueError: do_train or do_eval")
       ELSE pc' = "output_dir" /\ err' = err
    /\ UNCHANGED <<args, data_dir, device_chosen, process_group,
                   output_dir_made, loaded, self_train,
                   ud_train_fea, ud_unlabel_fea, best_acc, time, epoch, model,
                   output_model_file, firstTrained, bestSeen, sort_calls>>

\* Lines 764-769: the directory is created unless it exists with content.
MakeOutputDir ==
    /\ pc = "output_dir"
    /\ UNCHANGED <<fgmVars, sortVars, trainVars>>
    /\ output_dir_made' = ~output_model_file.exists
    /\ pc' = "check_task"
    /\ UNCHANGED <<args, data_dir, err, device_chosen, process_group, loaded,
                   self_train, ud_train_fea, ud_unlabel_fea, best_acc, time,
                   epoch, model, output_model_file, firstTrained, bestSeen,
                   sort_calls>>

\* Lines 771-774.
CheckTask ==
    /\ pc = "check_task"
    /\ UNCHANGED <<fgmVars, sortVars, trainVars>>
    /\ IF args.task_name \notin Processors
       THEN Raise("ValueError: Task not found")
       ELSE pc' = "load" /\ err' = err
    /\ UNCHANGED <<args, data_dir, device_chosen, process_group,
                   output_dir_made, loaded, self_train,
                   ud_train_fea, ud_unlabel_fea, best_acc, time, epoch, model,
                   output_model_file, firstTrained, bestSeen, sort_calls>>

\* Lines 776-791: tokenizer, processor, label list, train examples.  Only
\* MLDProcessor has a constructor taking (lang, tokenizer); CLYProcessor
\* inherits object's and raises TypeError on line 778.
LoadProcessor ==
    /\ pc = "load"
    /\ UNCHANGED <<fgmVars, sortVars, trainVars>>
    /\ IF args.task_name = "cly"
       THEN /\ Raise("TypeError: CLYProcessor() takes no arguments")
            /\ loaded' = loaded \cup {"tokenizer"}
            /\ UNCHANGED self_train
       ELSE /\ pc' = "prepare_model" /\ err' = err
            /\ self_train' = TRUE
            /\ loaded' = loaded \cup {"tokenizer"}
                           \cup (IF args.do_train THEN {"train"} ELSE {})
    /\ UNCHANGED <<args, data_dir, device_chosen, process_group,
                   output_dir_made, ud_train_fea, ud_unlabel_fea, best_acc,
                   time, epoch, model, output_model_file, firstTrained,
                   bestSeen, sort_calls>>

\* Lines 794-800: with --resume, line 796 reads args.old_output_dir, an
\* attribute no add_argument call defines, and raises AttributeError.
PrepareModel ==
    /\ pc = "prepare_model"
    /\ UNCHANGED <<fgmVars, sortVars, trainVars>>
    /\ IF args.resume
       THEN Raise("AttributeError: old_output_dir")
       ELSE pc' = "load_data" /\ err' = err
    /\ UNCHANGED <<args, data_dir, device_chosen, process_group,
                   output_dir_made, loaded, self_train,
                   ud_train_fea, ud_unlabel_fea, best_acc, time, epoch, model,
                   output_model_file, firstTrained, bestSeen, sort_calls>>

\* Lines 803-827: dev and unlabeled examples, the features of the pools,
\* best_acc = 0.
LoadData ==
    /\ pc = "load_data"
    /\ UNCHANGED <<fgmVars, sortVars, trainVars>>
    /\ loaded' = loaded \cup {"dev", "unlabel"}
    /\ ud_train_fea' = IF args.do_train THEN TrainFeatures(data_dir.train)
                       ELSE <<>>
    /\ ud_unlabel_fea' = UnlabelFeatures(data_dir.unlabel)
    /\ best_acc' = 0
    /\ time' = 0
    /\ pc' = IF args.do_train THEN "round" ELSE "reload"
    /\ UNCHANGED <<args, data_dir, err, device_chosen, process_group,
                   output_dir_made, self_train, epoch, model,
                   output_model_file, firstTrained, bestSeen, sort_calls>>

\* Lines 830-886: the head of a round, or the end of the loop.  Every
\* round builds its model from the pretrained base (line 834).
StartRound ==
    /\ pc = "round"
    /\ UNCHANGED <<fgmVars, sortVars, trainVars>>
    /\ IF time < args.num_self_train
       THEN /\ model' = [init |-> "pretrained", round |-> time + 1, epoch |-> 0]
            /\ loaded' = loaded \cup {"model"}
            /\ epoch' = 0
            /\ pc' = "train"
       ELSE /\ pc' = "reload"
            /\ UNCHANGED <<model, loaded, epoch>>
    /\ UNCHANGED <<args, data_dir, err, device_chosen, process_group,
                   output_dir_made, self_train, ud_train_fea, ud_unlabel_fea,
                   best_acc, time, output_model_file, firstTrained, bestSeen,
                   sort_calls>>

\* Line 529: eval_accuracy > best_acc
ImprovesOrEquals(eval_accuracy, best) == eval_accuracy >= best
Improves(eval_accuracy, best) == eval_accuracy > best

\* Lines 529-530 and 536: the watermark after an epoch-end evaluation.
WatermarkLastAccuracy(eval_accuracy, best) == eval_accuracy
Watermark(eval_accuracy, best) ==
    IF Improves(eval_accuracy, best) THEN eval_accuracy ELSE best

\* Lines 437-535: one epoch of train(): the steps over the labeled pool,
\* then the evaluation on the dev set and, if it beats the watermark, the
\* save of the checkpoint.  After the last epoch train() returns best_acc
\* (line 536, assigned on line 888).
TrainEpoch ==
    /\ pc = "train"
    /\ UNCHANGED <<fgmVars, sortVars, trainVars>>
    /\ epoch < args.num_train_epochs
    /\ \E eval_accuracy \in 0..MaxAcc :
          LET trained == [model EXCEPT !.epoch = epoch + 1]
          IN /\ model' = trained
             /\ output_model_file' =
                   IF Improves(eval_accuracy, best_acc)
                   THEN [exists |-> TRUE, round |-> trained.round,
                         epoch |-> trained.epoch, acc |-> eval_accuracy]
                   ELSE output_model_file
             /\ best_acc' = Watermark(eval_accuracy, best_acc)
             /\ bestSeen' = IF eval_accuracy > bestSeen.acc
                            THEN [acc |-> eval_accuracy, round |-> trained.round,
                                  epoch |-> trained.epoch]
                            ELSE bestSeen
    /\ firstTrained' = IF firstTrained = "none" THEN model.init
                       ELSE firstTrained
    /\ epoch' = epoch + 1
    /\ pc' = IF epoch + 1 = args.num_train_epochs THEN "after_train" ELSE "train"
    /\ UNCHANGED <<args, data_dir, err, device_chosen, process_group,
                   output_dir_made, loaded, self_train, ud_train_fea,
                   ud_unlabel_fea, time, sort_calls>>

\* Confidence records an evaluation pass can produce for n examples: the
\* argmax over num_labels logits and its softmax probability.
ConfidenceRecords(n) ==
    [1..n -> (0..(NumLabelsTask[args.task_name] - 1)) \X (1..MaxConf)]

\* Line 890: `if args.self_train and time != self_train_time-1`
RanksAfterEveryRound(st, t, R) == st
RanksAfterRound(st, t, R) == st /\ t # R - 1

\* Lines 890-891 with eval() (lines 538-612) in self-training mode: the
\* pass over the unlabeled pool, sort() on its records, then the metrics.
\* On an empty pool no batch is run, sort() is still called, and
\* np.concatenate on line 595 raises ValueError for the empty list.
PseudoLabel ==
    /\ pc = "after_train"
    /\ UNCHANGED <<fgmVars, sortVars, trainVars>>
    /\ RanksAfterRound(self_train, time, args.num_self_train)
    /\ \E id2maxp \in ConfidenceRecords(Len(ud_unlabel_fea)) :
          LET r == Sort(ud_train_fea, ud_unlabel_fea, MLDLabels, id2maxp,
                        args.num_k)
          IN /\ ud_train_fea' = r.ud_train_examples
             /\ ud_unlabel_fea' = r.ud_unlabel_examples
    /\ sort_calls' = sort_calls + 1
    /\ IF ud_unlabel_fea = <<>>
       THEN Raise("ValueError: need at least one array to concatenate")
            /\ time' = time
       ELSE pc' = "round" /\ err' = err /\ time' = time + 1
    /\ UNCHANGED <<args, data_dir, device_chosen, process_group,
                   output_dir_made, loaded, self_train, best_acc, epoch, model,
                   output_model_file, firstTrained, bestSeen>>

\* Line 890 in the last round: no evaluation pass, no sort().
SkipPseudoLabel ==
    /\ pc = "after_train"
    /\ UNCHANGED <<fgmVars, sortVars, trainVars>>
    /\ ~RanksAfterRound(self_train, time, args.num_self_train)
    /\ time' = time + 1
    /\ pc' = "round"
    /\ UNCHANGED <<args, data_dir, err, device_chosen, process_group,
                   output_dir_made, loaded, self_train, ud_train_fea,
                   ud_unlabel_fea, best_acc, epoch, model, output_model_file,
                   firstTrained, bestSeen, sort_calls>>

\* Lines 893-896: self-training mode off, the checkpoint file is read and
\* a model built from its state dict.
Reload ==
    /\ pc = "reload"
    /\ UNCHANGED <<fgmVars, sortVars, trainVars>>
    /\ self_train' = FALSE
    /\ IF output_model_file.exists
       THEN /\ model' = [init |-> "checkpoint",
                         round |-> output_model_file.round,
                         epoch |-> output_model_file.epoch]
            /\ loaded' = loaded \cup {"model"}
            /\ pc' = "test" /\ err' = err
       ELSE /\ Raise("FileNotFoundError: pytorch_model.bin")
            /\ UNCHANGED <<model, loaded>>
    /\ UNCHANGED <<args, data_dir, device_chosen, process_group,
                   output_dir_made, ud_train_fea, ud_unlabel_fea, best_acc,
                   time, epoch, output_model_file, firstTrained, bestSeen,
                   sort_calls>>

\* Lines 898-905: the evaluation pass on the test set (self-training mode
\* is off, so eval() takes the branch of line 594 and calls no sort()).
TestEval ==
    /\ pc = "test"
    /\ UNCHANGED <<fgmVars, sortVars, trainVars>>
    /\ loaded' = IF args.do_eval THEN loaded \cup {"test"} ELSE loaded
    /\ pc' = "done"
    /\ UNCHANGED <<args, data_dir, err, device_chosen, process_group,
                   output_dir_made, self_train, ud_train_fea, ud_unlabel_fea,
                   best_acc, time, epoch, model, output_model_file,
                   firstTrained, bestSeen, sort_calls>>

NextMain ==
    \/ SelectDevice \/ CheckAccumulation \/ CheckMode \/ MakeOutputDir
    \/ CheckTask \/ LoadProcessor \/ PrepareModel \/ LoadData
    \/ StartRound \/ TrainEpoch \/ PseudoLabel \/ SkipPseudoLabel
    \/ Reload \/ TestEval

----------------------------------------------------------------------------
(***************************************************************************)
(* run_ld.py : the steps of train() and the learning-rate schedule         *)
(***************************************************************************)

\* Bounds of the training runs followed step by step.
\* examples in the train file: 1..MaxTrainSize
MaxTrainSize == 3
\* examples one ranking call promotes: 0..MaxGrow
MaxGrow == 1

\* Values of --train_batch_size, --gradient_accumulation_steps,
\* --num_train_epochs and --num_self_train the runs are started with.
BatchSizes == {1, 2}
AccumulationSteps == {1, 2}
EpochCounts == {1, 2}
RoundCounts == {1, 2}

\* --warmup_proportion: the default 0.1, as a fraction.
WarmupProportion == [num |-> 1, den |-> 10]

TrainArgs ==
    [adv_training : BOOLEAN,
     train_batch_size : BatchSizes,
     gradient_accumulation_steps : AccumulationSteps,
     num_train_epochs : EpochCounts,
     num_self_train : RoundCounts]

\* Gradients the backward pass of a training step leaves: every parameter
\* takes part in the loss, so none is left without a gradient (the same
\* tensor on every parameter: vanishing or not).
StepGrads == {[i \in Params |-> g] : g \in {Tensor(0, 0), Tensor(3, -4)}}

\* int(a / b) for a >= 0 and b > 0.
IntDiv(a, b) == a \div b

\* len(train_dataloader): the last batch may be short (drop_last=False).
NumBatches(n, b) == (n + b - 1) \div b

\* Lines 790-791: int(len(train_examples) / train_batch_size /
\* gradient_accumulation_steps * num_train_epochs).
NumTrainSteps(n, b, g, e) == IntDiv(n * e, b * g)

\* Line 468: (step + 1) % args.gradient_accumulation_steps == 0
WindowFilledEveryStep(s, g) == TRUE
WindowFilled(s, g) == (s + 1) % g = 0

\* x = args.global_step / args.t_total, kept as a fraction.
Fraction(n, d) == [num |-> n, den |-> d]

\* x < y for fractions with positive denominators.
Less(x, y) == x.num * y.den < y.num * x.den

\* Lines 380-383: warmup_linear(x, warmup).
WarmupLinear(x, warmup) ==
    IF Less(x, warmup)
    THEN Fraction(x.num * warmup.den, x.den * warmup.num)
    ELSE Fraction(x.den - x.num, x.den)

NoLR == [x |-> Fraction(0, 1), mult |-> Fraction(0, 1), set |-> FALSE]

\* Line 474, optimizer.step(): BertAdam is an imported library; its update
\* is one descent step along the gradient the parameter holds.
OptimizerUpdate(d, g) ==
    IF g.kind = "tensor" THEN [k \in 1..2 |-> d[k] - g.v[k]] ELSE d

\* Line 475, optimizer.zero_grad().
ZeroGrad(g) == IF g.kind = "None" THEN g ELSE Tensor(0, 0)

TrainRaise(e) ==
    /\ train_pc' = "error"
    /\ train_err' = e

IdleTrain ==
    /\ train_args = CHOOSE a \in TrainArgs : TRUE
    /\ train_size = 1
    /\ batch_size = 0
    /\ num_train_steps = 0
    /\ t_total = 0
    /\ global_step = 0
    /\ round_no = 0
    /\ epoch_no = 0
    /\ step = 0
    /\ train_pc = "idle"
    /\ train_err = ""
    /\ ops = <<>>
    /\ dataClean = InitData
    /\ lr_this_step = NoLR

InitTrainArgs ==
    /\ train_args \in TrainArgs
    /\ train_size \in 1..MaxTrainSize
    /\ batch_size = 0
    /\ num_train_steps = 0
    /\ t_total = 0
    /\ global_step = 0
    /\ round_no = 0
    /\ epoch_no = 0
    /\ step = 0
    /\ train_pc = "setup"
    /\ train_err = ""
    /\ ops = <<>>
    /\ dataClean = InitData
    /\ lr_this_step = NoLR

\* Lines 753 and 790-791: the per-step batch size and the planned number
\* of optimizer steps, computed once from the train file.  A window larger
\* than the batch size makes the batch size 0 and line 791 divide by it.
Setup ==
    /\ train_pc = "setup"
    /\ LET b == IntDiv(train_args.train_batch_size,
                       train_args.gradient_accumulation_steps)
       IN /\ batch_size' = b
          /\ IF b = 0
             THEN /\ TrainRaise("ZeroDivisionError: line 791")
                  /\ UNCHANGED num_train_steps
             ELSE /\ num_train_steps' =
                        NumTrainSteps(train_size, b,
                                      train_args.gradient_accumulation_steps,
                                      train_args.num_train_epochs)
                  /\ train_pc' = "round" /\ train_err' = train_err
    /\ UNCHANGED <<train_args, train_size, t_total, global_step, round_no,
                   epoch_no, step, ops, dataClean, lr_this_step>>
    /\ UNCHANGED <<fgmVars, sortVars, mainVars>>

\* Lines 830-886 and 416-436: the head of a round (single process, so
\* t_total = num_train_steps): the step counter back to 0, a model fresh
\* from the pretrained base and, inside train(), a new FGM object.
BeginRound ==
    /\ train_pc = "round"
    /\ IF round_no < train_args.num_self_train
       THEN /\ global_step' = 0
            /\ t_total' = num_train_steps
            /\ data' = InitData
            /\ grad' = [i \in Params |-> NoGrad]
            /\ backup' = EmptyBackup
            /\ epoch_no' = 0
            /\ train_pc' = "epoch"
       ELSE /\ train_pc' = "done"
            /\ UNCHANGED <<global_step, t_total, data, grad, backup, epoch_no>>
    /\ UNCHANGED <<train_args, train_size, batch_size, num_train_steps,
                   round_no, step, train_err, ops, dataClean, lr_this_step>>
    /\ UNCHANGED <<requires_grad, lastCall, prevCall, dataPre, dataPre2,
                   backupPre, calls>>
    /\ UNCHANGED <<sortVars, mainVars>>

\* Line 437 and the head of line 440: the next epoch, or the return of
\* train().
BeginEpoch ==
    /\ train_pc = "epoch"
    /\ IF epoch_no < train_args.num_train_epochs
       THEN step' = 0 /\ train_pc' = "batch"
       ELSE step' = step /\ train_pc' = "after_train"
    /\ UNCHANGED <<train_args, train_size, batch_size, num_train_steps,
                   t_total, global_step, round_no, epoch_no, train_err, ops,
                   dataClean, lr_this_step>>
    /\ UNCHANGED <<fgmVars, sortVars, mainVars>>

\* Lines 440-454: the clean forward pass and loss.backward() of one batch.
ForwardBackward ==
    /\ train_pc = "batch"
    /\ step < NumBatches(train_size, batch_size)
    /\ \E g \in StepGrads : grad' = g
    /\ Record("backward", <<>>, TRUE)
    /\ dataClean' = data
    /\ ops' = <<"backward">>
    /\ train_pc' = IF train_args.adv_training THEN "attack" ELSE "tail"
    /\ UNCHANGED <<requires_grad, data, backup>>
    /\ UNCHANGED <<train_args, train_size, batch_size, num_train_steps,
                   t_total, global_step, round_no, epoch_no, step, train_err,
                   lr_this_step>>
    /\ UNCHANGED <<sortVars, mainVars>>

\* Line 457: fgm.attack() with its default arguments.
StepAttack ==
    /\ train_pc = "attack"
    /\ LET st == AttackLoop([data |-> data, backup |-> backup, ok |-> TRUE],
                            1, 1, DefaultEmbName)
       IN /\ data' = st.data
          /\ backup' = st.backup
          /\ Record("attack", DefaultEmbName, st.ok)
          /\ IF st.ok
             THEN train_pc' = "adv_backward" /\ train_err' = train_err
             ELSE TrainRaise("TypeError: torch.norm(None)")
    /\ ops' = Append(ops, "attack")
    /\ UNCHANGED <<requires_grad, grad>>
    /\ UNCHANGED <<train_args, train_size, batch_size, num_train_steps,
                   t_total, global_step, round_no, epoch_no, step, dataClean,
                   lr_this_step>>
    /\ UNCHANGED <<sortVars, mainVars>>

\* Lines 458-461: forward pass on the perturbed parameters and
\* loss_adv.backward(), which adds to the gradients.
AdvBackward ==
    /\ train_pc = "adv_backward"
    /\ \E g \in StepGrads : grad' = g
    /\ Record("backward", <<>>, TRUE)
    /\ ops' = Append(ops, "backward")
    /\ train_pc' = "restore"
    /\ UNCHANGED <<requires_grad, data, backup>>
    /\ UNCHANGED <<train_args, train_size, batch_size, num_train_steps,
                   t_total, global_step, round_no, epoch_no, step, train_err,
                   dataClean, lr_this_step>>
    /\ UNCHANGED <<sortVars, mainVars>>

\* Line 462: fgm.restore() with its default argument.
StepRestore ==
    /\ train_pc = "restore"
    /\ LET st == RestoreLoop([data |-> data, backup |-> backup, ok |-> TRUE],
                             1, DefaultEmbName)
       IN /\ data' = st.data
          /\ backup' = ClearAfterRestore(st.ok, st.backup)
          /\ Record("restore", DefaultEmbName, st.ok)
          /\ IF st.ok
             THEN train_pc' = "tail" /\ train_err' = train_err
             ELSE TrainRaise("AssertionError: name in self.backup")
    /\ ops' = Append(ops, "restore")
    /\ UNCHANGED <<requires_grad, grad>>
    /\ UNCHANGED <<train_args, train_size, batch_size, num_train_steps,
                   t_total, global_step, round_no, epoch_no, step, dataClean,
                   lr_this_step>>
    /\ UNCHANGED <<sortVars, mainVars>>

\* Lines 465-476: the end of a step.  When the accumulation window is
\* filled the learning rate is set from global_step / t_total (a division
\* by zero when t_total is 0), the optimizer steps, the gradients are
\* zeroed and global_step is incremented.
OptimizerStep ==
    /\ train_pc = "tail"
    /\ IF WindowFilled(step, train_args.gradient_accumulation_steps)
       THEN IF t_total = 0
            THEN /\ TrainRaise("ZeroDivisionError: line 470")
                 /\ UNCHANGED <<lr_this_step, data, grad, global_step, ops,
                                step>>
            ELSE LET x == Fraction(global_step, t_total)
                 IN /\ lr_this_step' =
                          [x |-> x, mult |-> WarmupLinear(x, WarmupProportion),
                           set |-> TRUE]
                    /\ data' = [i \in Params |->
                                   IF requires_grad[i]
                                   THEN OptimizerUpdate(data[i], grad[i])
                                   ELSE data[i]]
                    /\ grad' = [i \in Params |-> ZeroGrad(grad[i])]
                    /\ global_step' = global_step + 1
                    /\ ops' = Append(ops, "optimizer")
                    /\ step' = step + 1
                    /\ train_pc' = "batch" /\ train_err' = train_err
       ELSE /\ step' = step + 1
            /\ train_pc' = "batch" /\ train_err' = train_err
            /\ UNCHANGED <<lr_this_step, data, grad, global_step, ops>>
    /\ UNCHANGED <<requires_grad, backup, lastCall, prevCall, dataPre,
                   dataPre2, backupPre, calls>>
    /\ UNCHANGED <<train_args, train_size, batch_size, num_train_steps,
                   t_total, round_no, epoch_no, dataClean>>
    /\ UNCHANGED <<sortVars, mainVars>>

\* Lines 478-535: the batches of the epoch are used up; validation, and
\* the next epoch.
EndEpoch ==
    /\ train_pc = "batch"
    /\ step >= NumBatches(train_size, batch_size)
    /\ epoch_no' = epoch_no + 1
    /\ train_pc' = "epoch"
    /\ UNCHANGED <<train_args, train_size, batch_size, num_train_steps,
                   t_total, global_step, round_no, step, train_err, ops,
                   dataClean, lr_this_step>>
    /\ UNCHANGED <<fgmVars, sortVars, mainVars>>

\* Lines 890-891: after a non-final round the ranking call moves some
\* examples into the labeled pool; then the next value of `time`.
AfterTrain ==
    /\ train_pc = "after_train"
    /\ IF RanksAfterRound(TRUE, round_no, train_args.num_self_train)
       THEN \E promoted \in 0..MaxGrow : train_size' = train_size + promoted
       ELSE train_size' = train_size
    /\ round_no' = round_no + 1
    /\ train_pc' = "round"
    /\ UNCHANGED <<train_args, batch_size, num_train_steps, t_total,
                   global_step, epoch_no, step, train_err, ops, dataClean,
                   lr_this_step>>
    /\ UNCHANGED <<fgmVars, sortVars, mainVars>>

NextTrain ==
    \/ Setup \/ BeginRound \/ BeginEpoch \/ ForwardBackward \/ StepAttack
    \/ AdvBackward \/ StepRestore \/ OptimizerStep \/ EndEpoch \/ AfterTrain

----------------------------------------------------------------------------
(***************************************************************************)
(* Specifications                                                          *)
(***************************************************************************)

InitFGM == InitFGMObject /\ IdleSort /\ IdleMain /\ IdleTrain

SpecFGM == InitFGM /\ [][NextFGM]_vars

InitSort == IdleFGM /\ InitSortArgs /\ IdleMain /\ IdleTrain

NextSort == CallSort

SpecSort == InitSort /\ [][NextSort]_vars

InitMain == IdleFGM /\ IdleSort /\ InitMainArgs /\ InitMainState /\ IdleTrain

SpecMain == InitMain /\ [][NextMain]_vars

InitTrain == IdleFGM /\ IdleSort /\ IdleMain /\ InitTrainArgs

SpecTrain == InitTrain /\ [][NextTrain]_vars

----------------------------------------------------------------------------
(***************************************************************************)
(* Properties of at.py (checked under SpecFGM)                             *)
(***************************************************************************)

\* The parameters the last call looped over and acted on.
LastTargets == {i \in Params : Targeted(i, lastCall.emb_name)}

AttackThenRestore ==
    /\ lastCall.op = "restore" /\ lastCall.ok
    /\ prevCall.op = "attack" /\ prevCall.ok
    /\ lastCall.emb_name = prevCall.emb_name

\* C1: when every targeted parameter has a nonzero, non-NaN gradient norm,
\* attack followed immediately by restore with the same name filter leaves
\* each targeted parameter at exactly its pre-attack value and the backup
\* mapping empty.
C1_RoundTrip ==
    (/\ AttackThenRestore
     /\ \A i \in LastTargets : Perturbs(Norm(grad[i])))
    => /\ \A i \in LastTargets : data[i] = dataPre2[i]
       /\ backup = EmptyBackup

\* A round trip in which the attack really moved a targeted parameter.
C1_Witness ==
    /\ AttackThenRestore
    /\ LastTargets # {}
    /\ \A i \in LastTargets : Perturbs(Norm(grad[i]))
    /\ \E i \in LastTargets : dataPre[i] # dataPre2[i] /\ data[i] = dataPre2[i]

AttackOnEmptyBackup ==
    lastCall.op = "attack" /\ lastCall.ok /\ backupPre = {}

SkippedByAttack(i) ==
    i \in LastTargets /\ ~Perturbs(Norm(grad[i]))

\* C6 as stated: after attack, a targeted parameter whose gradient norm is 0
\* or NaN has no backup entry and an unaltered value, and so has every
\* parameter the filter does not select.
C6_SkipHasNoBackupEntry ==
    AttackOnEmptyBackup =>
        \A i \in Params :
            (SkippedByAttack(i) \/ i \notin LastTargets)
            => /\ ParamNames[i] \notin DOMAIN backup
               /\ data[i] = dataPre[i]

\* C6 as the code has it: a targeted parameter whose gradient norm is 0 or
\* NaN keeps its value but does get a backup entry, a snapshot of that same
\* value; parameters the filter does not select have no entry and keep
\* their value.
C6_SkipKeepsValue ==
    AttackOnEmptyBackup =>
        \A i \in Params :
            /\ SkippedByAttack(i)
               => /\ ParamNames[i] \in DOMAIN backup
                  /\ backup[ParamNames[i]] = data[i]
                  /\ data[i] = dataPre[i]
            /\ i \notin LastTargets
               => /\ ParamNames[i] \notin DOMAIN backup
                  /\ data[i] = dataPre[i]

\* An attack that met a zero-norm and a NaN-norm targeted parameter next to
\* a parameter outside the filter.
C6_Witness ==
    /\ AttackOnEmptyBackup
    /\ \E i \in LastTargets : grad[i] = Tensor(0, 0)
    /\ \E i \in LastTargets : grad[i] = NaNGrad
    /\ \E i \in Params : i \notin LastTargets

RestoreMissingSnapshot ==
    /\ lastCall.op = "restore"
    /\ \E i \in LastTargets : ParamNames[i] \notin backupPre

\* C7 as stated: restore called while some targeted parameter has no
\* snapshot fails with an assertion error and has changed no parameter
\* value.
C7_FailedRestoreChangesNothing ==
    RestoreMissingSnapshot => ~lastCall.ok /\ data = dataPre

\* The first parameter, in iteration order, whose assertion fails.
FirstMissing ==
    CHOOSE i \in LastTargets :
        /\ ParamNames[i] \notin backupPre
        /\ \A j \in LastTargets : j < i => ParamNames[j] \in backupPre

\* C7 as the code has it: such a restore fails with an assertion error; it
\* has changed no parameter value when the backup was empty (no attack came
\* before, or a restore already emptied it), and otherwise it has changed
\* only targeted parameters that come before the first one without a
\* snapshot.
C7_FailedRestore ==
    RestoreMissingSnapshot =>
        /\ ~lastCall.ok
        /\ backupPre = {} => data = dataPre
        /\ \A i \in Params :
              data[i] # dataPre[i] => i \in LastTargets /\ i < FirstMissing

\* A second restore right after an attack/restore pair, failing on a
\* parameter that the pair had perturbed and restored.
C7_Witness ==
    /\ RestoreMissingSnapshot
    /\ backupPre = {}
    /\ prevCall.op = "restore" /\ prevCall.ok
    /\ \E i \in LastTargets : dataPre2[i] # dataPre[i]
    /\ ~lastCall.ok

----------------------------------------------------------------------------
(***************************************************************************)
(* Properties of sort() (checked under SpecSort)                           *)
(***************************************************************************)

Vocabulary == 0..(Len(label_list) - 1)

\* Pool indices (0-based) whose confidence record predicts class c.
Candidates(c) == {i \in 0..(Len(id2conf) - 1) : id2conf[i + 1][1] = c}

ConfOf(i) == id2conf[i + 1][2]

\* Pool indices whose example is found in the returned labeled pool.
PromotedIndices ==
    {i \in 0..(Len(eval_examples) - 1) :
        \E j \in 1..Len(sorted_out.ud_train_examples) :
            sorted_out.ud_train_examples[j].id = eval_examples[i + 1].id}

PromotedOf(c) == Candidates(c) \cap PromotedIndices

\* The part of the returned labeled pool that the call appended.
Appended ==
    SubSeq(sorted_out.ud_train_examples, Len(train_examples) + 1,
           Len(sorted_out.ud_train_examples))

SizesConserved ==
    Len(sorted_out.ud_train_examples) + Len(sorted_out.ud_unlabel_examples)
        = Len(train_examples) + Len(eval_examples)

\* C2: for K >= 0 one call of sort keeps |labeled| + |unlabeled| and grows
\* the labeled pool by at most K * |label vocabulary|.
C2_PoolSizeConservation ==
    (sort_pc = "done" /\ num_k >= 0) =>
        /\ sorted_out.ok
        /\ SizesConserved
        /\ Len(sorted_out.ud_train_examples) - Len(train_examples)
              <= num_k * Len(label_list)

\* A call that moved exactly K * |vocabulary| > 0 examples and left some.
C2_Witness ==
    /\ sort_pc = "done" /\ num_k >= 1
    /\ Len(sorted_out.ud_train_examples) - Len(train_examples)
          = num_k * Len(label_list)
    /\ Len(label_list) >= 2
    /\ sorted_out.ud_unlabel_examples # <<>>
    /\ train_examples # <<>>

\* Candidate i is ranked before candidate j.
RankedBefore(i, j) ==
    ConfOf(i) > ConfOf(j) \/ (ConfOf(i) = ConfOf(j) /\ i < j)

\* C5: for every vocabulary class with n >= 1 candidates the promoted
\* candidates are the first min(K, n) in the order "confidence descending,
\* equal confidences by ascending pool index".
C5_TopKStableTieBreak ==
    (sort_pc = "done" /\ num_k >= 0) =>
        \A c \in Vocabulary :
            Candidates(c) # {} =>
                /\ Cardinality(PromotedOf(c))
                      = Min(num_k, Cardinality(Candidates(c)))
                /\ \A p \in PromotedOf(c), q \in Candidates(c) \ PromotedOf(c) :
                      RankedBefore(p, q)

\* K = 1 and two candidates of one class with the same confidence: the
\* lower pool index went to the labeled pool, the higher one stayed.
C5_Witness ==
    /\ sort_pc = "done" /\ num_k = 1
    /\ \E c \in Vocabulary :
          \E p \in PromotedOf(c), q \in Candidates(c) \ PromotedOf(c) :
              ConfOf(p) = ConfOf(q) /\ p < q

\* C8: when no record predicts some vocabulary class c, the call returns,
\* appends no example labelled c, still promotes min(K, n) examples for
\* every class that has n candidates, and conserves the pool sizes.
C8_ClassWithoutCandidates ==
    (/\ sort_pc = "done" /\ num_k >= 0
     /\ \E c \in Vocabulary : Candidates(c) = {})
    => /\ sorted_out.ok
       /\ \A c \in Vocabulary :
             /\ Candidates(c) = {}
                => \A j \in 1..Len(Appended) : Appended[j].label_id # c
             /\ Candidates(c) # {}
                => Cardinality({j \in 1..Len(Appended) : Appended[j].label_id = c})
                      = Min(num_k, Cardinality(Candidates(c)))
       /\ SizesConserved

\* Three classes, the middle one without candidates, and promotions for
\* the two classes around it.
C8_Witness ==
    /\ sort_pc = "done" /\ num_k >= 1 /\ sorted_out.ok
    /\ Len(label_list) = 3
    /\ Candidates(1) = {}
    /\ PromotedOf(0) # {} /\ PromotedOf(2) # {}

\* Where the example at pool index i sits in the appended part.
AppendedAt(i) ==
    {j \in 1..Len(Appended) : Appended[j].id = eval_examples[i + 1].id}

\* C12: after a call of sort, every example promoted while class c was
\* processed (its confidence record predicts c) carries label c in the
\* returned labeled pool, whatever label it carried in the unlabeled pool.
C12_PseudoLabelAssignment ==
    sort_pc = "done" =>
        \A c \in Vocabulary :
            \A i \in PromotedOf(c) :
                /\ AppendedAt(i) # {}
                /\ \A j \in AppendedAt(i) : Appended[j].label_id = c

\* A promoted example whose label in the unlabeled pool was not the
\* predicted one, next to a promoted example of another class.
C12_Witness ==
    /\ sort_pc = "done" /\ sorted_out.ok
    /\ \E c \in Vocabulary :
          \E i \in PromotedOf(c) :
              /\ eval_examples[i + 1].label_id # c
              /\ \E j \in AppendedAt(i) : Appended[j].label_id = c
    /\ \E c, e \in Vocabulary : c # e /\ PromotedOf(c) # {} /\ PromotedOf(e) # {}

\* The pool index of the j-th appended example.
IndexOfAppended(j) ==
    CHOOSE i \in 0..(Len(eval_examples) - 1) :
        eval_examples[i + 1].id = Appended[j].id

ClassOfAppended(j) == id2conf[IndexOfAppended(j) + 1][1]

AppendedIds == {Appended[j].id : j \in 1..Len(Appended)}

\* C18: sort returns the labeled pool it was given, unchanged, as a prefix
\* of the returned labeled pool; the examples after it come from the
\* unlabeled pool, ordered by class in vocabulary order and, inside a
\* class, by descending confidence; the returned unlabeled pool is the
\* given one without the promoted examples, order and labels kept.
C18_RankingFrameAndOrder ==
    sort_pc = "done" =>
        /\ Len(sorted_out.ud_train_examples) >= Len(train_examples)
        /\ SubSeq(sorted_out.ud_train_examples, 1, Len(train_examples))
              = train_examples
        /\ \A j \in 1..Len(Appended) :
              \E i \in 0..(Len(eval_examples) - 1) :
                  eval_examples[i + 1].id = Appended[j].id
        /\ \A j, k \in 1..Len(Appended) :
              j < k =>
                  \/ ClassOfAppended(j) < ClassOfAppended(k)
                  \/ /\ ClassOfAppended(j) = ClassOfAppended(k)
                     /\ ConfOf(IndexOfAppended(j)) >= ConfOf(IndexOfAppended(k))
        /\ sorted_out.ud_unlabel_examples
              = SelectSeq(eval_examples, LAMBDA ex : ex.id \notin AppendedIds)

\* A call on a non-empty labeled pool that appended two
\* examples of one class with different confidences, the second of them
\* from a lower pool index than the first, and left an example behind.
C18_Witness ==
    /\ sort_pc = "done"
    /\ train_examples # <<>>
    /\ sorted_out.ud_unlabel_examples # <<>>
    /\ \E j, k \in 1..Len(Appended) :
          /\ j < k
          /\ ClassOfAppended(j) = ClassOfAppended(k)
          /\ ConfOf(IndexOfAppended(j)) > ConfOf(IndexOfAppended(k))
          /\ IndexOfAppended(j) > IndexOfAppended(k)

----------------------------------------------------------------------------
(***************************************************************************)
(* Properties of main() (checked under SpecMain)                           *)
(***************************************************************************)

IdsOf(pool) == {pool[j].id : j \in 1..Len(pool)}

\* C3: the labeled and the unlabeled pool never share an example, at a
\* round boundary or anywhere else in a run, whatever sort() was given.
C3_PoolsDisjoint ==
    IdsOf(ud_train_fea) \cap IdsOf(ud_unlabel_fea) = {}

\* The boundary after the second ranking call of a run, both calls having
\* moved an example.
C3_Witness ==
    /\ pc = "round" /\ sort_calls = 2
    /\ Len(ud_train_fea) = data_dir.train + 2
    /\ IdsOf(ud_train_fea) \cap IdsOf(UnlabelFeatures(data_dir.unlabel)) # {}

\* C4: the watermark never decreases in any step of a run, and outside the
\* epochs of train() (between the return of one round's train() and the
\* first epoch of the next round) it does not change at all.
C4_MonotonicWatermark ==
    [][/\ best_acc' >= best_acc
       /\ pc # "train" => best_acc' = best_acc]_vars

\* The second round has evaluated an epoch below the watermark that the
\* first round set, and the watermark is still the first round's.
C4_Witness ==
    /\ pc = "train" /\ time = 1 /\ epoch = 1
    /\ best_acc = MaxAcc
    /\ bestSeen.round = 1
    /\ output_model_file.round = 1

RunTrained ==
    /\ pc \in {"test", "done"}
    /\ args.do_train
    /\ output_model_file.round >= 1

\* C9 as stated: the checkpoint reloaded for the test set was produced by
\* training in the final round.
C9_FinalRoundCheckpoint ==
    RunTrained =>
        model.init = "checkpoint" /\ model.round = args.num_self_train

\* C9 as the code has it: the checkpoint reloaded for the test set is the
\* one saved at the epoch-end evaluation that first reached the highest
\* validation accuracy of the whole run; its round is any of 1..R.
C9_BestCheckpointOfRun ==
    RunTrained =>
        /\ model.init = "checkpoint"
        /\ model.round = bestSeen.round /\ model.epoch = bestSeen.epoch
        /\ model.round \in 1..args.num_self_train
        /\ bestSeen.acc = best_acc

\* The test set is evaluated on a checkpoint of round 1 after three rounds.
C9_Witness ==
    /\ pc = "done" /\ args.do_train /\ args.do_eval
    /\ args.num_self_train = 3
    /\ model.init = "checkpoint" /\ model.round = 1
    /\ "test" \in loaded

\* C10 as stated: a run asked to resume, once it has ended, has trained its
\* first round from the resumed checkpoint's parameters, and every later
\* round starts from the pretrained base.
C10_ResumeTrainsFirstRound ==
    /\ (/\ args.resume /\ args.do_train
        /\ args.gradient_accumulation_steps >= 1
        /\ args.task_name = "mld"
        /\ pc \in {"done", "error"})
       => firstTrained = "resumed"
    /\ (pc = "train" /\ time >= 1) => model.init = "pretrained"

ConfigurationErrors ==
    {"ValueError: gradient_accumulation_steps",
     "ValueError: do_train or do_eval",
     "ValueError: Task not found"}

\* C11 as stated: when main() raises one of its three configuration errors
\* (accumulation window below 1, neither training nor evaluation selected,
\* unknown task name), no device has been selected, no distributed process
\* group initialised, no output directory created and nothing loaded.
C11_ConfigurationErrorsFirst ==
    (pc = "error" /\ err \in ConfigurationErrors) =>
        /\ ~device_chosen
        /\ ~process_group
        /\ ~output_dir_made
        /\ loaded = NothingLoaded

Pools == <<ud_train_fea, ud_unlabel_fea>>

\* A run with training enabled and R >= 1 rounds.
TrainingRun == args.do_train /\ args.num_self_train >= 1

\* C13: once the pools are loaded, a step of a training run changes them
\* only if it is the ranking call made after the training loop of a
\* non-final round; that call is made once per non-final round, so a run
\* that has left its R rounds has made R - 1 calls; the epochs of the
\* training loop, the reload and the final test-set evaluation change
\* neither pool and make no call.
C13_PoolsChangeOnlyInRanking ==
    /\ [][/\ (pc # "load_data" /\ Pools' # Pools)
             => sort_calls' = sort_calls + 1
          /\ sort_calls' # sort_calls
             => /\ pc = "after_train"
                /\ time < args.num_self_train - 1
                /\ sort_calls = time
                /\ sort_calls' = time + 1]_vars
    /\ []((TrainingRun /\ pc \in {"reload", "test", "done"})
            => sort_calls = args.num_self_train - 1)

\* A run of three rounds has ended after two ranking calls that each moved
\* an example.
C13_Witness ==
    /\ pc = "done" /\ args.num_self_train = 3
    /\ sort_calls = 2
    /\ Len(ud_train_fea) = data_dir.train + 2
    /\ Len(ud_unlabel_fea) = data_dir.unlabel - 2

\* A checkpoint has been written during this run.
CheckpointWritten == output_model_file.round >= 1

\* C15: a step writes the checkpoint file if and only if it is an epoch
\* end whose validation accuracy is strictly greater than every accuracy
\* seen before in the run (the watermark); the watermark is then that
\* accuracy, so whenever a checkpoint has been written in this run the
\* accuracy of the file equals the current watermark.
C15_CheckpointTracksWatermark ==
    /\ [][/\ (output_model_file' # output_model_file)
             <=> (pc = "train" /\ bestSeen'.acc > bestSeen.acc)
          /\ (output_model_file' # output_model_file)
             => /\ best_acc' > best_acc
                /\ output_model_file'.acc = best_acc'
                /\ output_model_file'.round = time + 1
                /\ output_model_file'.epoch = epoch']_vars
    /\ [](CheckpointWritten => output_model_file.acc = best_acc)
    /\ [](best_acc = bestSeen.acc)

\* In the second round an epoch has ended below the watermark: the file is
\* still the first round's and its accuracy is the watermark.
C15_Witness ==
    /\ pc = "after_train" /\ time = 1
    /\ CheckpointWritten
    /\ output_model_file.round = 1
    /\ output_model_file.acc = best_acc /\ best_acc = MaxAcc
    /\ model.round = 2

\* C17: the ranking call of a non-final round that finds the unlabeled
\* pool non-empty, with K >= 1, shrinks the unlabeled pool and grows the
\* labeled pool by at least one example; and once the pools are loaded no
\* step of a run grows the unlabeled pool or shrinks the labeled pool.
C17_MigrationProgress ==
    [][/\ (/\ pc = "after_train"
           /\ time < args.num_self_train - 1
           /\ ud_unlabel_fea # <<>>
           /\ args.num_k >= 1)
          => /\ Len(ud_unlabel_fea') < Len(ud_unlabel_fea)
             /\ Len(ud_train_fea') > Len(ud_train_fea)
       /\ pc # "load_data"
          => /\ Len(ud_unlabel_fea') <= Len(ud_unlabel_fea)
             /\ Len(ud_train_fea') >= Len(ud_train_fea)]_vars

\* The first ranking call of a run, with K = 1, has moved two examples of
\* different predicted classes and emptied the unlabeled pool.
C17_Witness ==
    /\ pc = "round" /\ time = 1 /\ sort_calls = 1
    /\ args.num_k = 1 /\ args.num_self_train >= 2
    /\ data_dir.unlabel = 2
    /\ ud_unlabel_fea = <<>>
    /\ Len(ud_train_fea) = data_dir.train + 2

\* A command line that passes the checks and loads of main().
ValidRun ==
    /\ args.gradient_accumulation_steps >= 1
    /\ args.task_name = "mld"
    /\ ~args.resume

\* C19 as stated: a run with training enabled, R >= 1 and K >= 0 never
\* stops in an error, and when it has left the loop of rounds it has
\* performed exactly R of them; this for every initial pair of pools, the
\* empty unlabeled pool included.
C19_RunTermination ==
    (TrainingRun /\ ValidRun /\ args.num_k >= 0) =>
        /\ pc # "error"
        /\ pc \in {"reload", "test", "done"} => time = args.num_self_train

\* C20 as stated: when a run with training enabled has left its R >= 1
\* rounds and is about to reload the best-accuracy checkpoint, a
\* checkpoint has been written during this run, whatever validation
\* accuracies the epochs produced.
C20_CheckpointExistsAtReload ==
    (TrainingRun /\ ValidRun /\ pc = "reload") => CheckpointWritten

----------------------------------------------------------------------------
(***************************************************************************)
(* Properties of the steps of train() (checked under SpecTrain)            *)
(***************************************************************************)

AdversarialStep == <<"backward", "attack", "backward", "restore">>

\* C14: with adversarial training on, a training step runs the clean
\* forward and backward pass, attack, the forward and backward pass on the
\* perturbed parameters, restore, and then the optimizer step exactly when
\* the accumulation window is filled; the backup is empty when attack is
\* called and when the step ends; and when the optimizer is about to step
\* the parameters hold the values they had before the attack.
C14_AttackRestorePairing ==
    train_args.adv_training =>
        /\ train_pc = "attack"
           => ops = SubSeq(AdversarialStep, 1, 1) /\ backup = EmptyBackup
        /\ train_pc = "adv_backward" => ops = SubSeq(AdversarialStep, 1, 2)
        /\ train_pc = "restore" => ops = SubSeq(AdversarialStep, 1, 3)
        /\ train_pc = "tail"
           => /\ ops = AdversarialStep
              /\ backup = EmptyBackup
              /\ data = dataClean
        /\ (train_pc \in {"batch", "epoch", "after_train", "round", "done"}
            /\ ops # <<>>)
           => /\ backup = EmptyBackup
              /\ ops \in {AdversarialStep, Append(AdversarialStep, "optimizer")}
              /\ (train_pc = "batch" /\ step >= 1)
                 => (ops = Append(AdversarialStep, "optimizer")
                     <=> step % train_args.gradient_accumulation_steps = 0)
        /\ train_err \notin {"TypeError: torch.norm(None)",
                             "AssertionError: name in self.backup"}

\* The second step of an epoch with a window of 2 is about to run the
\* optimizer: the attack had perturbed the embeddings and restore has put
\* the clean values back.
C14_Witness ==
    /\ train_args.adv_training
    /\ train_args.gradient_accumulation_steps = 2
    /\ train_pc = "tail" /\ step = 1
    /\ lastCall.op = "restore" /\ dataPre # data
    /\ data = dataClean
    /\ backup = EmptyBackup

InUnitInterval(f) == f.den > 0 /\ 0 <= f.num /\ f.num <= f.den

\* C16 as stated: every optimizer step computes x = global_step / t_total
\* with 0 <= x <= 1 and a learning-rate multiplier in [0, 1], whatever the
\* train-set size, batch size, accumulation window and epoch count, in the
\* first round and in the later rounds on the grown labeled pool.
C16_LearningRateRange ==
    /\ train_err # "ZeroDivisionError: line 470"
    /\ lr_this_step.set
       => /\ InUnitInterval(lr_this_step.x)
          /\ InUnitInterval(lr_this_step.mult)

====
